---- MODULE Spec2Model ----
(***************************************************************************)
(* Federated sketched SGD (Sketched_SGD/fed_sketched_classes.py).           *)
(*                                                                         *)
(* The coordinator objects FedSketchedModel / FedSketchedLoss /            *)
(* FedSketchedOptimizer share the round record `rounds`; every worker      *)
(* actor owns a parameter vector, the momentum buffer u, the velocity      *)
(* buffer v and a persistent Count-Sketch.  Tensors are integer vectors    *)
(* (sequences indexed 1..n; Python's index i is i+1 here), so the          *)
(* arithmetic is exact.  In Spec, SpecTrain and SpecHead a remote call     *)
(* batch is run to completion inside the action of the coordinator call    *)
(* that issues it, in issue order (an actor serves its calls one at a time *)
(* in the order they were sent; this gives every worker the sequence of    *)
(* states it goes through).  SpecRay runs the tasks of the training loop   *)
(* one at a time, so that what the coordinator has and has not waited for  *)
(* is visible.  SpecAgg, SpecGrad and SpecLayout call one worker method    *)
(* directly on inputs drawn from bounded sets.                             *)
(***************************************************************************)
EXTENDS Integers, Sequences, FiniteSets, TLC

VARIABLES
    training,                   \* FedSketchedModel.training
    rounds,                     \* FedSketchedModel.rounds: the round record
    W,                          \* worker index -> [param, u, v, sketch]
    k,                          \* args['k']
    p2,                         \* args['p2']
    nesterov,                   \* args['nesterov']
    weight_decay,               \* args['weight_decay']
    sketch_mask,                \* FedSketchedWorker.sketch_mask (same on all)
    participation,              \* fed_params["participation_rate"], [num, den]
    steps,                      \* optimizer steps completed so far
    aggCalls,                   \* direct all_reduce_sketched calls so far
    gradCalls,                  \* direct compute_grad calls so far
    contrib,                    \* the list grads handed to all_reduce_sketched
    sampled,                    \* idx drawn by the latest training forward
    last,                       \* what the last call did (observation only)
    targets,                    \* the workers that hold self.targets
    head_worker,                \* head_worker of optimizer, model and loss
    queue,                      \* worker -> its submitted, unfinished tasks
    store,                      \* object store: batch -> worker -> returned v
    coord,                      \* the call the coordinator is blocked in
    roundStart,                 \* W when the latest training forward was called
    layout                      \* one worker's model, optimizer binding, p.grad

vars == <<training, rounds, W, k, p2, nesterov, weight_decay, sketch_mask,
          participation, steps, aggCalls, gradCalls, contrib, sampled, last,
          targets, head_worker, queue, store, coord, roundStart, layout>>

(* The state that only the specifications further down move.               *)
aux == <<head_worker, queue, store, coord, roundStart, layout, gradCalls>>

config == <<k, p2, nesterov, weight_decay, sketch_mask, participation>>

----------------------------------------------------------------------------
(* Bounds of the exploration.                                              *)

MaxRounds == 2      \* training-mode forward calls explored
MaxSteps == 2       \* optimizer steps explored
MaxK == 3           \* k ranges over 0..MaxK
MaxP2 == 2          \* p2 ranges over 1..MaxP2
MaxContrib == 2     \* vectors passed to a direct all_reduce_sketched call
MaxAggCalls == 1    \* direct all_reduce_sketched calls explored
MaxGradCalls == 2   \* direct compute_grad calls explored
MaxParams == 2      \* parameters of a model whose layout is explored

GradVals == {-1, 2}             \* entries of a gradient produced by backward

----------------------------------------------------------------------------
(* Configuration of the run.                                               *)

num_workers == 2
workers == [i \in 0..(num_workers - 1) |-> i]
WorkerIds == DOMAIN workers
lr == 2
momentum == 2
num_rows == 1
num_cols == 2

(* The model: one Linear layer, weight (2 entries) then bias (1 entry).    *)
params == << [numel |-> 2, is_bias |-> FALSE, requires_grad |-> TRUE],
             [numel |-> 1, is_bias |-> TRUE,  requires_grad |-> TRUE] >>

----------------------------------------------------------------------------
(* Vectors.                                                                *)

RECURSIVE SumSeq(_)
SumSeq(s) == IF s = <<>> THEN 0 ELSE Head(s) + SumSeq(Tail(s))

(* The tuple <<f[1], ..., f[n]>> of a function on 1..n.                     *)
RECURSIVE Tup(_, _)
Tup(f, n) == IF n = 0 THEN <<>> ELSE Append(Tup(f, n - 1), f[n])

Zeros(n) == Tup([i \in 1..n |-> 0], n)
VAdd(a, b) == Tup([i \in 1..Len(a) |-> a[i] + b[i]], Len(a))
VSub(a, b) == Tup([i \in 1..Len(a) |-> a[i] - b[i]], Len(a))
VScale(c, a) == Tup([i \in 1..Len(a) |-> c * a[i]], Len(a))

(* torch.sum(torch.stack(vs), dim=0) at coordinate i                        *)
SumAt(vs, i) == SumSeq(Tup([j \in 1..Len(vs) |-> vs[j][i]], Len(vs)))

(* The ascending list of the elements of a finite set of integers.         *)
SetToSeq(S) ==
    Tup([j \in 1..Cardinality(S) |->
            CHOOSE x \in S : Cardinality({y \in S : y <= x}) = j],
        Cardinality(S))

(* Positions selected by a boolean mask, ascending: x[mask] reads them,    *)
(* x[mask] = y writes them, in this order.                                 *)
TruePos(mask) == SetToSeq({i \in 1..Len(mask) : mask[i]})
MaskSelect(x, mask) ==
    LET pos == TruePos(mask)
    IN  Tup([j \in 1..Len(pos) |-> x[pos[j]]], Len(pos))

----------------------------------------------------------------------------
(* FedSketchedWorker.set_model / set_optimizer: the coordinate layout.      *)

(* set_model: p.do_sketching = p.numel() >= sketch_params_larger_than,     *)
(* then every Linear bias is overridden with sketch_biases.                *)
do_sketching(p, biases, larger_than) ==
    IF p.is_bias THEN biases ELSE p.numel >= larger_than

(* set_optimizer: grad_size adds up the parameters that require grad.      *)
GradSizeOf(ps) ==
    SumSeq(Tup([j \in 1..Len(ps) |->
                   IF ps[j].requires_grad THEN ps[j].numel ELSE 0], Len(ps)))

grad_size == GradSizeOf(params)

(* The parameter (1..Len(params)) that owns coordinate i of the flat       *)
(* vector, parameters laid out in traversal order.                         *)
OwnerOf(i) ==
    CHOOSE j \in 1..Len(params) :
        /\ SumSeq(Tup([jj \in 1..(j - 1) |-> params[jj].numel], j - 1)) < i
        /\ i <= SumSeq(Tup([jj \in 1..j |-> params[jj].numel], j))

(* set_optimizer: torch.cat of ones(size) / zeros(size) per parameter.     *)
SketchMaskOf(biases, larger_than) ==
    Tup([i \in 1..grad_size |->
            do_sketching(params[OwnerOf(i)], biases, larger_than)], grad_size)

(* d of the CSVec: sketch_mask.sum()                                       *)
sketch_d == Len(TruePos(sketch_mask))

----------------------------------------------------------------------------
(* CSVec (module `minimal`): a Count-Sketch of num_rows hash rows of        *)
(* num_cols buckets over d coordinates, with fixed hash functions that are *)
(* the same on every worker.                                               *)

Bucket(r, i) == ((i * r + r) % num_cols) + 1
Sign(r, i) == IF ((i \div 2) + r) % 2 = 0 THEN 1 ELSE -1

SketchZero == Tup([r \in 1..num_rows |-> Zeros(num_cols)], num_rows)

(* self.sketch += x : linear insertion of a vector of length d             *)
SketchAdd(table, x) ==
    Tup([r \in 1..num_rows |-> Tup([c \in 1..num_cols |->
        table[r][c] + SumSeq(Tup([i \in 1..Len(x) |->
            IF Bucket(r, i) = c THEN Sign(r, i) * x[i] ELSE 0], Len(x)))],
        num_cols)], num_rows)

(* The lower median of a non-empty sequence of integers.                   *)
Median(s) ==
    CHOOSE m \in {s[j] : j \in 1..Len(s)} :
        /\ 2 * Cardinality({j \in 1..Len(s) : s[j] < m}) < Len(s)
        /\ 2 * Cardinality({j \in 1..Len(s) : s[j] <= m}) >= Len(s)

SketchEstimate(table, d) ==
    Tup([i \in 1..d |->
            Median(Tup([r \in 1..num_rows |->
                           Sign(r, i) * table[r][Bucket(r, i)]], num_rows))], d)

(* Position (1 = smallest) of entry i in the ascending sort of a vector;   *)
(* equal entries keep their index order.                                   *)
AscRank(x, i) ==
    Cardinality({j \in 1..Len(x) : x[j] < x[i] \/ (x[j] = x[i] /\ j < i)}) + 1

Squares(x) == Tup([i \in 1..Len(x) |-> x[i] * x[i]], Len(x))

(* unSketch(k = m): zero except at the m coordinates of largest estimated  *)
(* squared value, which carry the sketch's estimates.                      *)
UnSketch(table, d, m) ==
    LET est == SketchEstimate(table, d)
        sq == Squares(est)
    IN  Tup([i \in 1..d |-> IF AscRank(sq, i) > d - m THEN est[i] ELSE 0], d)

----------------------------------------------------------------------------
(* FedSketchedWorker.                                                      *)

(* No worker: a head_worker attribute that was never assigned.             *)
NoWorker == -1

(* p.grad of a parameter that has none (None).                             *)
NoGrad == <<>>

(* One worker's model before set_optimizer: its parameters, their p.grad,  *)
(* and the fields set_optimizer will assign.                               *)
Unbound(ps) ==
    [bound |-> FALSE, net |-> ps, grad |-> Tup([j \in 1..Len(ps) |-> NoGrad], Len(ps)),
     grad_size |-> 0, sketch_mask |-> <<>>, u |-> <<>>, v |-> <<>>]

(* No model layout under study.                                            *)
NoLayout == Unbound(<<>>)

(* set_optimizer: u and v start at zero; the replica is seeded identically *)
(* on every worker (set_model seeds torch with 42).                        *)
InitParam == Tup([i \in 1..grad_size |-> i], grad_size)

InitWorker ==
    [param |-> InitParam, u |-> Zeros(grad_size), v |-> Zeros(grad_size),
     sketch |-> SketchZero]

(* _getLRVec: one parameter group, so the scalar lr                         *)
getLRVec == lr

(* The velocity overwritten with the gradient instead of accumulated.      *)
compute_grad_overwrite_v(w, g, nest) ==
    [w EXCEPT !.u = IF nest THEN VScale(momentum, VAdd(w.u, g))
                            ELSE VAdd(VScale(momentum, w.u), g),
              !.v = g]

(* The weight-decay term left out.                                         *)
compute_grad_no_decay(w, g, nest) ==
    LET u1 == IF nest THEN VScale(momentum, VAdd(w.u, g))
                      ELSE VAdd(VScale(momentum, w.u), g)
    IN  [w EXCEPT !.u = u1,
                  !.v = IF nest THEN VAdd(VAdd(w.v, u1), g) ELSE VAdd(w.v, u1)]

(* compute_grad on worker state w with flattened gradient g; the factor    *)
(* weight_decay / num_workers is a whole number for every weight_decay in  *)
(* WeightDecays.                                                           *)
compute_grad(w, g, nest) ==
    LET gradVec == IF weight_decay # 0
                   THEN VAdd(g, VScale(weight_decay \div num_workers, w.param))
                   ELSE g
        u1 == IF nest THEN VScale(momentum, VAdd(w.u, gradVec))
                      ELSE VAdd(VScale(momentum, w.u), gradVec)
        v1 == IF nest THEN VAdd(VAdd(w.v, u1), gradVec)
                      ELSE VAdd(w.v, u1)
    IN  [w EXCEPT !.u = u1, !.v = v1]

(* torch.sort(vec**2)[1][-kk:] : the positions kept by Python's slice      *)
(* [-kk:] of a list of length n; [-0:] is the whole list.                  *)
SliceLast(n, kk) == IF kk = 0 \/ kk >= n THEN 1..n ELSE (n - kk + 1)..n

(* Keeping one entry more than k.                                          *)
topk_one_more(vec, kk) ==
    LET sq == Squares(vec)
        keep == {i \in 1..Len(vec) :
                    AscRank(sq, i) \in SliceLast(Len(vec), kk + 1)}
    IN  Tup([i \in 1..Len(vec) |-> IF i \in keep THEN vec[i] ELSE 0], Len(vec))

(* _topk(vec, k)                                                           *)
topk(vec, kk) ==
    LET sq == Squares(vec)
        keep == {i \in 1..Len(vec) : AscRank(sq, i) \in SliceLast(Len(vec), kk)}
    IN  Tup([i \in 1..Len(vec) |-> IF i \in keep THEN vec[i] ELSE 0], Len(vec))

(* candidate_top_k[candidate_hh_coords] = sum of grad[candidate_hh_coords] *)
(* the coordinates index the sketched vector, and each grad is read at the *)
(* same index of the full vector.                                          *)
Debias(cand, grads) ==
    Tup([i \in 1..Len(cand) |-> IF cand[i] # 0 THEN SumAt(grads, i) ELSE 0],
        Len(cand))

(* The dense part taken from the first contributed vector only.           *)
Assemble_first_only(weights, grads, mask) ==
    LET pos == TruePos(mask)
    IN  Tup([i \in 1..Len(mask) |->
                IF mask[i]
                THEN weights[CHOOSE j \in 1..Len(pos) : pos[j] = i]
                ELSE grads[1][i]], Len(mask))

(* weight_update[sketch_mask] = weights;                                   *)
(* weight_update[~sketch_mask] = sum of grad[~sketch_mask]                 *)
Assemble(weights, grads, mask) ==
    LET pos == TruePos(mask)
    IN  Tup([i \in 1..Len(mask) |->
                IF mask[i]
                THEN weights[CHOOSE j \in 1..Len(pos) : pos[j] = i]
                ELSE SumAt(grads, i)], Len(mask))

(* The sketch after zero() and the insertion of every grad[sketch_mask]    *)
RECURSIVE SketchAll(_, _, _)
SketchAll(table, grads, mask) ==
    IF grads = <<>> THEN table
    ELSE SketchAll(SketchAdd(table, MaskSelect(Head(grads), mask)), Tail(grads), mask)

(* The insertions made on top of what the sketch already held.             *)
AggSketch_no_zero(table, grads, mask) == SketchAll(table, grads, mask)

(* self.sketch.zero(), then self.sketch += grad[self.sketch_mask] for each *)
AggSketch(table, grads, mask) == SketchAll(SketchZero, grads, mask)

(* The weight update all_reduce_sketched builds from a sketch table        *)
WeightUpdate(table, grads, mask, kk, pp) ==
    LET d == Len(TruePos(mask))
        candidate_top_k == UnSketch(table, d, pp * kk)
        weights == topk(Debias(candidate_top_k, grads), kk)
    IN  Assemble(weights, grads, mask)

(* u and v cleared at every coordinate.                                    *)
apply_update_reset_all(w, update, mask) ==
    [w EXCEPT !.u = Zeros(Len(w.u)), !.v = Zeros(Len(w.v)),
              !.param = VSub(w.param, VScale(getLRVec, update))]

(* _apply_update                                                           *)
apply_update(w, update, mask) ==
    [w EXCEPT
        !.u = Tup([i \in 1..Len(w.u) |-> IF update[i] # 0 THEN 0 ELSE w.u[i]],
                  Len(w.u)),
        !.v = Tup([i \in 1..Len(w.v) |->
                      IF update[i] # 0 \/ ~mask[i] THEN 0 ELSE w.v[i]], Len(w.v)),
        !.param = VSub(w.param, VScale(getLRVec, update))]

(* all_reduce_sketched on worker state w with the list grads: the worker   *)
(* afterwards, and the weight_update it built.                             *)
all_reduce_sketched(w, grads, mask, kk, pp) ==
    LET table == AggSketch(w.sketch, grads, mask)
        weight_update == WeightUpdate(table, grads, mask, kk, pp)
    IN  [worker |-> apply_update([w EXCEPT !.sketch = table], weight_update, mask),
         weight_update |-> weight_update]

----------------------------------------------------------------------------
(* The coordinator: FedSketchedModel, FedSketchedLoss, FedSketchedOptimizer *)

(* Gradients a backward pass may leave on a worker.                        *)
GradVecs == {Tup(f, grad_size) : f \in [1..grad_size -> GradVals]}
UniformGrads == {Tup([i \in 1..grad_size |-> x], grad_size) : x \in GradVals}

(* What a call did.  sent: the workers the call dispatched its remote      *)
(* method to (model_call, loss_call, optimizer_zero_grad, compute_grad);   *)
(* upd: the workers all_reduce_sketched was issued to, in issue order;     *)
(* updates[j]: the weight update built by the j-th of them; g: the         *)
(* gradient each training worker read; pre, rounds_before,                 *)
(* targets_before: W, rounds and targets before the call; repeated: the    *)
(* call before this one was the same operation; mid: W between the         *)
(* compute_grad batch and the all_reduce_sketched batch of a step; value:  *)
(* what a worker method returned; batch: the step a task belongs to.       *)
NoCall ==
    [op |-> "init", raised |-> "", returned |-> "", nargs |-> 0, nkwargs |-> 0,
     sent |-> {}, upd |-> <<>>, updates |-> <<>>, g |-> <<>>, pre |-> <<>>,
     rounds_before |-> <<>>, targets_before |-> {}, repeated |-> FALSE,
     mid |-> <<>>, value |-> <<>>, batch |-> 0]

(* The record of a call named op made in the current state.                *)
Call(op) ==
    [NoCall EXCEPT !.op = op, !.repeated = (last.op = op), !.pre = W,
                   !.rounds_before = rounds, !.targets_before = targets]

(* Rounding the product up instead of truncating it.                       *)
SampleSizeCeil(rate) ==
    (Cardinality(WorkerIds) * rate.num + rate.den - 1) \div rate.den

(* int(num_workers * self.participation)                                   *)
SampleSize(rate) == (Cardinality(WorkerIds) * rate.num) \div rate.den

(* np.random.choice(np.arange(num_workers), size, replace=False)           *)
Samples(rate) == {idx \in SUBSET WorkerIds : Cardinality(idx) = SampleSize(rate)}

(* Reading every recorded round instead of the last one.                   *)
opt_get_workers_merged(rs) ==
    {workers[i] : i \in UNION {rs[r] : r \in 1..Len(rs)}}

(* FedSketchedOptimizer._get_workers: self.workers[self.model.rounds[-1]]  *)
opt_get_workers(rs) == {workers[i] : i \in rs[Len(rs)]}

(* Reading the first recorded round instead of the last one.               *)
loss_get_workers_first(rs) == {workers[i] : i \in rs[1]}

(* FedSketchedLoss._get_workers: self.workers[self.model.rounds[-1]]       *)
loss_get_workers(rs) == {workers[i] : i \in rs[Len(rs)]}

(* FedSketchedModel.train                                                  *)
Train(b) ==
    /\ training' = b
    /\ last' = Call("train")
    /\ UNCHANGED <<rounds, W, config, steps, aggCalls, contrib, sampled, targets, aux>>

(* FedSketchedModel.__call__, training branch; model_call stores outs and  *)
(* targets on every sampled worker.                                        *)
ForwardTrain ==
    /\ training
    /\ Len(rounds) < MaxRounds
    /\ \E idx \in Samples(participation) :
        /\ rounds' = Append(rounds, idx)
        /\ sampled' = idx
        /\ targets' = targets \cup {workers[i] : i \in idx}
        /\ last' = [Call("forward") EXCEPT !.sent = {workers[i] : i \in idx}]
    /\ UNCHANGED <<training, W, config, steps, aggCalls, contrib, aux>>

(* FedSketchedModel.__call__, evaluation branch: model_call goes to        *)
(* workers[0] with the caller's (inputs, targets); the reference is        *)
(* returned without being waited for.                                      *)
ForwardEval ==
    /\ ~training
    /\ targets' = targets \cup {workers[0]}
    /\ last' = [Call("eval_forward") EXCEPT !.sent = {workers[0]}]
    /\ UNCHANGED <<training, rounds, W, config, steps, aggCalls, contrib, sampled, aux>>

ArgCounts == {1, 2, 3}
KwargCounts == {0, 1}

(* The keyword test after the argument-count test.                         *)
loss_branch_args_first(nargs, nkwargs) ==
    IF nargs = 2 THEN "head" ELSE IF nkwargs > 0 THEN "kwargs" ELSE "round"

(* FedSketchedLoss.__call__: the branch taken by a call with nargs         *)
(* positional and nkwargs keyword arguments.                               *)
loss_branch(nargs, nkwargs) ==
    IF nkwargs > 0 THEN "kwargs" ELSE IF nargs = 2 THEN "head" ELSE "round"

(* A loss_call that never fails.                                           *)
loss_call_never_raises(ts, ws) == FALSE

(* loss_call reads self.targets and then deletes the attribute: on a       *)
(* worker outside ts (the workers that hold targets) the read fails, and   *)
(* ray.get re-raises the failure in the caller.                            *)
loss_call_raises(ts, ws) == ws \ ts # {}

(* loss_call dispatched to every worker of ws                              *)
LossOn(n, kw, ws) ==
    /\ targets' = targets \ ws
    /\ last' = [Call("loss") EXCEPT
                  !.nargs = n, !.nkwargs = kw, !.sent = ws,
                  !.raised = IF loss_call_raises(targets, ws)
                             THEN "RayTaskError" ELSE "",
                  !.returned = IF loss_call_raises(targets, ws)
                               THEN "" ELSE "SketchedLossResult"]

(* FedSketchedLoss.__call__ with keyword arguments                         *)
LossKwargs ==
    /\ \E n \in ArgCounts, kw \in KwargCounts :
        /\ loss_branch(n, kw) = "kwargs"
        /\ last' = [Call("loss") EXCEPT !.nargs = n, !.nkwargs = kw,
                                        !.returned = "None"]
    /\ UNCHANGED <<training, rounds, W, config, steps, aggCalls, contrib, sampled, targets, aux>>

(* FedSketchedLoss.__call__ with exactly two positional arguments          *)
LossTwoArgs ==
    /\ \E n \in ArgCounts, kw \in KwargCounts :
        /\ loss_branch(n, kw) = "head"
        /\ LossOn(n, kw, {workers[0]})
    /\ UNCHANGED <<training, rounds, W, config, steps, aggCalls, contrib, sampled, aux>>

(* FedSketchedLoss.__call__, the remaining branch                          *)
LossRound ==
    /\ rounds # <<>>
    /\ \E n \in ArgCounts, kw \in KwargCounts :
        /\ loss_branch(n, kw) = "round"
        /\ LossOn(n, kw, loss_get_workers(rounds))
    /\ UNCHANGED <<training, rounds, W, config, steps, aggCalls, contrib, sampled, aux>>

(* rounds[-1] of an empty round record                                     *)
LossRaises ==
    /\ rounds = <<>>
    /\ \E n \in ArgCounts, kw \in KwargCounts :
        /\ loss_branch(n, kw) = "round"
        /\ last' = [Call("loss") EXCEPT !.nargs = n, !.nkwargs = kw,
                                        !.raised = "IndexError"]
    /\ UNCHANGED <<training, rounds, W, config, steps, aggCalls, contrib, sampled, targets, aux>>

(* FedSketchedOptimizer.zero_grad                                          *)
ZeroGrad ==
    /\ rounds # <<>>
    /\ last' = [Call("zero_grad") EXCEPT !.sent = opt_get_workers(rounds)]
    /\ UNCHANGED <<training, rounds, W, config, steps, aggCalls, contrib, sampled, targets, aux>>

ZeroGradRaises ==
    /\ rounds = <<>>
    /\ last' = [Call("zero_grad") EXCEPT !.raised = "IndexError"]
    /\ UNCHANGED <<training, rounds, W, config, steps, aggCalls, contrib, sampled, targets, aux>>

(* The all_reduce_sketched calls of one batch, served in issue order       *)
RECURSIVE RunAllReduce(_, _, _, _, _, _, _)
RunAllReduce(Wc, ups, grads, mask, kk, pp, done) ==
    IF ups = <<>> THEN [W |-> Wc, updates |-> done]
    ELSE LET w == Head(ups)
             r == all_reduce_sketched(Wc[w], grads, mask, kk, pp)
         IN  RunAllReduce([Wc EXCEPT ![w] = r.worker], Tail(ups), grads,
                          mask, kk, pp, Append(done, r.weight_update))

(* The optimizer's head_worker appended instead of workers[0].             *)
update_workers_head(train_workers) ==
    Append(train_workers, head_worker.optimizer)

(* step: update_workers = np.append(train_workers, self.workers[0])        *)
update_workers(train_workers) == Append(train_workers, workers[0])

(* FedSketchedOptimizer.step / _step; G: the gradients backward may have   *)
(* left on a training worker.                                              *)
Step(G) ==
    /\ rounds # <<>>
    /\ steps < MaxSteps
    /\ LET train_workers == SetToSeq(opt_get_workers(rounds))
           ups == update_workers(train_workers)
       IN  \E g \in [opt_get_workers(rounds) -> G] :
             LET W1 == [w \in WorkerIds |->
                          IF w \in DOMAIN g
                          THEN compute_grad(W[w], g[w], nesterov) ELSE W[w]]
                 grads == Tup([j \in 1..Len(train_workers) |->
                                  W1[train_workers[j]].v], Len(train_workers))
                 run == RunAllReduce(W1, ups, grads, sketch_mask, k, p2, <<>>)
             IN  /\ W' = run.W
                 /\ contrib' = grads
                 /\ last' = [Call("step") EXCEPT
                                !.sent = opt_get_workers(rounds),
                                !.upd = ups,
                                !.updates = run.updates,
                                !.g = g,
                                !.mid = W1]
    /\ steps' = steps + 1
    /\ UNCHANGED <<training, rounds, config, aggCalls, sampled, targets, aux>>

StepRaises ==
    /\ rounds = <<>>
    /\ last' = [Call("step") EXCEPT !.raised = "IndexError"]
    /\ UNCHANGED <<training, rounds, W, config, steps, aggCalls, contrib, sampled, targets, aux>>

----------------------------------------------------------------------------
(* Spec: the coordinator's calls in any order.                             *)

Rates == {[num |-> 3, den |-> 4], [num |-> 1, den |-> 1]}

(* training is first read through __getattr__ from the wrapped nn.Module,  *)
(* which is in training mode when constructed; rounds starts empty; every  *)
(* worker is as set_model and set_optimizer leave it.                      *)
InitState ==
    /\ training = TRUE
    /\ rounds = <<>>
    /\ W = [w \in WorkerIds |-> InitWorker]
    /\ steps = 0
    /\ aggCalls = 0
    /\ gradCalls = 0
    /\ sampled = {}
    /\ last = NoCall
    /\ targets = {}
    /\ head_worker = [optimizer |-> workers[0], model |-> NoWorker,
                      loss |-> NoWorker]
    /\ queue = [w \in WorkerIds |-> <<>>]
    /\ store = <<>>
    /\ coord = "idle"
    /\ roundStart = W

Init ==
    /\ InitState
    /\ k = 1
    /\ p2 = 1
    /\ nesterov = FALSE
    /\ weight_decay = 0
    /\ sketch_mask = SketchMaskOf(TRUE, 0)
    /\ participation \in Rates
    /\ contrib = <<>>
    /\ layout = NoLayout

Next ==
    \/ \E b \in BOOLEAN : Train(b)
    \/ ForwardTrain
    \/ ForwardEval
    \/ LossKwargs
    \/ LossTwoArgs
    \/ LossRound
    \/ LossRaises
    \/ ZeroGrad
    \/ ZeroGradRaises
    \/ Step(UniformGrads)
    \/ StepRaises

Spec == Init /\ [][Next]_vars

----------------------------------------------------------------------------
(* SpecTrain: the training loop (forward, then step), for both momentum    *)
(* rules, k, p2 and every gradient in GradVecs.                            *)

InitTrain ==
    /\ InitState
    /\ k \in 1..MaxK
    /\ p2 \in 1..MaxP2
    /\ nesterov \in BOOLEAN
    /\ weight_decay = 0
    /\ sketch_mask \in {SketchMaskOf(b, 0) : b \in BOOLEAN}
    /\ participation = [num |-> 3, den |-> 4]
    /\ contrib = <<>>
    /\ layout = NoLayout

NextTrain ==
    \/ Len(rounds) = steps /\ ForwardTrain
    \/ steps < Len(rounds) /\ Step(GradVecs)

SpecTrain == InitTrain /\ [][NextTrain]_vars

----------------------------------------------------------------------------
(* SpecAgg: one worker's all_reduce_sketched, called directly on arbitrary *)
(* lists of contributed vectors, for every layout, k and p2.               *)

ContribLists ==
    UNION {{Tup(f, n) : f \in [1..n -> GradVecs]} : n \in 1..MaxContrib}

InitAgg ==
    /\ InitState
    /\ k \in 0..MaxK
    /\ p2 \in 1..MaxP2
    /\ nesterov = FALSE
    /\ weight_decay = 0
    /\ sketch_mask \in {SketchMaskOf(b, t) : b \in BOOLEAN, t \in {0, grad_size}}
    /\ participation = [num |-> 1, den |-> 1]
    /\ contrib \in ContribLists
    /\ layout = NoLayout

(* worker.all_reduce_sketched.remote on the list contrib                   *)
AllReduceCall(w) ==
    /\ aggCalls < MaxAggCalls
    /\ aggCalls' = aggCalls + 1
    /\ LET r == all_reduce_sketched(W[w], contrib, sketch_mask, k, p2)
       IN  /\ W' = [W EXCEPT ![w] = r.worker]
           /\ last' = [Call("all_reduce") EXCEPT
                          !.upd = <<w>>,
                          !.updates = <<r.weight_update>>]
    /\ UNCHANGED <<training, rounds, config, steps, contrib, sampled, targets, aux>>

NextAgg == \E w \in WorkerIds : AllReduceCall(w)

SpecAgg == InitAgg /\ [][NextAgg]_vars

----------------------------------------------------------------------------
(* SpecRay: the remote tasks of the training loop, one at a time.  A       *)
(* remote call puts a task at the end of the actor's queue and hands back  *)
(* an object reference; an actor serves its queue in submission order; a   *)
(* task whose arguments are object references starts only when all of      *)
(* them are in the object store; the value a task returns is copied into   *)
(* the store when the task ends.                                           *)

Task(method, b, args) == [method |-> method, batch |-> b, args |-> args]

(* worker.<method>.remote for every worker of the list ws, in order        *)
RECURSIVE Submit(_, _, _)
Submit(q, ws, task) ==
    IF ws = <<>> THEN q
    ELSE Submit([q EXCEPT ![Head(ws)] = Append(@, task)], Tail(ws), task)

(* The tasks of one method and batch that have not ended yet.              *)
Unfinished(q, method, b) ==
    LET ids == SetToSeq(WorkerIds)
    IN  SumSeq(Tup([n \in 1..Len(ids) |->
                Cardinality({j \in 1..Len(q[ids[n]]) :
                    /\ q[ids[n]][j].method = method
                    /\ q[ids[n]][j].batch = b})], Len(ids)))

(* The update workers of batch b: the round's participants and workers[0]  *)
UpdateWorkersOf(b) ==
    update_workers(SetToSeq({workers[i] : i \in rounds[b]}))

(* ray.wait(refs) with the default num_returns = 1: at least one of the    *)
(* n tasks has ended.                                                      *)
ray_wait(n, unfinished) == unfinished < n

(* ray.get(refs): every task has ended.                                    *)
ray_get_all(unfinished) == unfinished = 0

(* Reading the worker's live buffer instead of the stored return value.    *)
ray_arg_live(st, Wc, w) == Wc[w].v

(* The value an object reference passed as an argument resolves to: what   *)
(* compute_grad on worker w returned, as stored when it ended.             *)
ray_arg(st, Wc, w) == st[w]

(* FedSketchedModel.__call__, training branch, up to ray.get               *)
RayForward ==
    /\ coord = "idle"
    /\ training
    /\ Len(rounds) = steps
    /\ Len(rounds) < MaxRounds
    /\ \E idx \in Samples(participation) :
        /\ rounds' = Append(rounds, idx)
        /\ sampled' = idx
        /\ queue' = Submit(queue, SetToSeq({workers[i] : i \in idx}),
                           Task("model_call", Len(rounds) + 1, <<>>))
        /\ last' = [Call("forward") EXCEPT !.sent = {workers[i] : i \in idx}]
    /\ roundStart' = W
    /\ coord' = "forward"
    /\ UNCHANGED <<training, W, config, steps, aggCalls, contrib, targets,
                   head_worker, store, layout, gradCalls>>

(* ray.get of the model_call references returns                            *)
RayForwardReturn ==
    /\ coord = "forward"
    /\ ray_get_all(Unfinished(queue, "model_call", Len(rounds)))
    /\ coord' = "idle"
    /\ last' = Call("forward_returned")
    /\ UNCHANGED <<training, rounds, W, config, steps, aggCalls, contrib, sampled,
                   targets, head_worker, queue, store, roundStart, layout, gradCalls>>

(* FedSketchedOptimizer.step / _step up to ray.wait: compute_grad is       *)
(* submitted to every training worker, then all_reduce_sketched, with the  *)
(* compute_grad references as arguments, to every update worker.           *)
RayStep ==
    /\ coord = "idle"
    /\ steps < Len(rounds)
    /\ steps < MaxSteps
    /\ LET b == steps + 1
           train_workers == SetToSeq(opt_get_workers(rounds))
           ups == update_workers(train_workers)
           q1 == Submit(queue, train_workers, Task("compute_grad", b, <<>>))
       IN  /\ queue' = Submit(q1, ups, Task("all_reduce_sketched", b, train_workers))
           /\ last' = [Call("step_issued") EXCEPT
                          !.sent = opt_get_workers(rounds), !.upd = ups,
                          !.batch = b]
    /\ store' = Append(store, <<>>)
    /\ coord' = "step"
    /\ UNCHANGED <<training, rounds, W, config, steps, aggCalls, contrib, sampled,
                   targets, head_worker, roundStart, layout, gradCalls>>

(* ray.wait of the all_reduce_sketched references returns, and step with   *)
(* it.                                                                     *)
RayStepReturn ==
    /\ coord = "step"
    /\ LET b == steps + 1
       IN  /\ ray_wait(Len(UpdateWorkersOf(b)),
                       Unfinished(queue, "all_reduce_sketched", b))
           /\ last' = [Call("step_returned") EXCEPT !.batch = b,
                                                    !.upd = UpdateWorkersOf(b)]
    /\ steps' = steps + 1
    /\ coord' = "idle"
    /\ UNCHANGED <<training, rounds, W, config, aggCalls, contrib, sampled,
                   targets, head_worker, queue, store, roundStart, layout, gradCalls>>

(* Worker w serves model_call                                              *)
ServeModelCall(w) ==
    /\ queue[w] # <<>>
    /\ Head(queue[w]).method = "model_call"
    /\ queue' = [queue EXCEPT ![w] = Tail(@)]
    /\ targets' = targets \cup {w}
    /\ last' = [Call("model_call") EXCEPT !.sent = {w},
                                          !.batch = Head(queue[w]).batch]
    /\ UNCHANGED <<training, rounds, W, config, steps, aggCalls, contrib, sampled,
                   head_worker, store, coord, roundStart, layout, gradCalls>>

(* Worker w serves compute_grad on the gradient backward left it; the      *)
(* returned v goes to the object store.                                    *)
ServeComputeGrad(w) ==
    /\ queue[w] # <<>>
    /\ Head(queue[w]).method = "compute_grad"
    /\ queue' = [queue EXCEPT ![w] = Tail(@)]
    /\ \E g \in UniformGrads :
         LET b == Head(queue[w]).batch
             w1 == compute_grad(W[w], g, nesterov)
         IN  /\ W' = [W EXCEPT ![w] = w1]
             /\ store' = [store EXCEPT ![b] = (w :> w1.v) @@ @]
             /\ last' = [Call("compute_grad") EXCEPT
                            !.sent = {w}, !.batch = b, !.value = w1.v]
    /\ UNCHANGED <<training, rounds, config, steps, aggCalls, contrib, sampled,
                   targets, head_worker, coord, roundStart, layout, gradCalls>>

(* Worker w serves all_reduce_sketched once every argument is available    *)
ServeAllReduce(w) ==
    /\ queue[w] # <<>>
    /\ Head(queue[w]).method = "all_reduce_sketched"
    /\ LET b == Head(queue[w]).batch
           args == Head(queue[w]).args
       IN  /\ \A j \in 1..Len(args) : args[j] \in DOMAIN store[b]
           /\ LET grads == Tup([j \in 1..Len(args) |->
                                   ray_arg(store[b], W, args[j])], Len(args))
                  r == all_reduce_sketched(W[w], grads, sketch_mask, k, p2)
              IN  /\ W' = [W EXCEPT ![w] = r.worker]
                  /\ last' = [Call("all_reduce_sketched") EXCEPT
                                 !.upd = <<w>>, !.batch = b, !.value = grads,
                                 !.updates = <<r.weight_update>>]
    /\ queue' = [queue EXCEPT ![w] = Tail(@)]
    /\ UNCHANGED <<training, rounds, config, steps, aggCalls, contrib, sampled,
                   targets, head_worker, store, coord, roundStart, layout, gradCalls>>

InitRay ==
    /\ InitState
    /\ k = 1
    /\ p2 = 1
    /\ nesterov = FALSE
    /\ weight_decay = 0
    /\ sketch_mask = SketchMaskOf(TRUE, 0)
    /\ participation \in Rates
    /\ contrib = <<>>
    /\ layout = NoLayout

NextRay ==
    \/ RayForward
    \/ RayForwardReturn
    \/ RayStep
    \/ RayStepReturn
    \/ \E w \in WorkerIds : ServeModelCall(w)
    \/ \E w \in WorkerIds : ServeComputeGrad(w)
    \/ \E w \in WorkerIds : ServeAllReduce(w)

SpecRay == InitRay /\ [][NextRay]_vars

----------------------------------------------------------------------------
(* SpecGrad: compute_grad called directly, for both momentum rules, with   *)
(* and without weight decay, on every gradient in GradVecs.                *)

WeightDecays == {0, num_workers, 2 * num_workers}

InitGrad ==
    /\ InitState
    /\ k = 1
    /\ p2 = 1
    /\ nesterov \in BOOLEAN
    /\ weight_decay \in WeightDecays
    /\ sketch_mask = SketchMaskOf(TRUE, 0)
    /\ participation = [num |-> 1, den |-> 1]
    /\ contrib = <<>>
    /\ layout = NoLayout

(* worker.compute_grad.remote() on the gradient g that backward left       *)
ComputeGradCall(w) ==
    /\ gradCalls < MaxGradCalls
    /\ gradCalls' = gradCalls + 1
    /\ \E g \in GradVecs :
         LET w1 == compute_grad(W[w], g, nesterov)
         IN  /\ W' = [W EXCEPT ![w] = w1]
             /\ last' = [Call("compute_grad") EXCEPT
                            !.sent = {w}, !.g = (w :> g), !.value = w1.v]
    /\ UNCHANGED <<training, rounds, config, steps, aggCalls, contrib, sampled,
                   targets, head_worker, queue, store, coord, roundStart, layout>>

NextGrad == \E w \in WorkerIds : ComputeGradCall(w)

SpecGrad == InitGrad /\ [][NextGrad]_vars

----------------------------------------------------------------------------
(* SpecLayout: set_optimizer, backward, _zero_grad and _getGradVec on one  *)
(* worker, for every model of up to MaxParams parameters.                  *)

RECURSIVE Flatten(_)
Flatten(vs) == IF vs = <<>> THEN <<>> ELSE Head(vs) \o Flatten(Tail(vs))

(* The models: every parameter has 1 or 2 entries, is a Linear bias or     *)
(* not, requires grad or not; at least one requires grad (set_optimizer    *)
(* cannot concatenate an empty mask).                                      *)
Nets ==
    LET P == [numel : {1, 2}, is_bias : BOOLEAN, requires_grad : BOOLEAN]
    IN  {ps \in UNION {[1..n -> P] : n \in 1..MaxParams} :
            \E j \in 1..Len(ps) : ps[j].requires_grad}

(* set_optimizer: ones(size) or zeros(size) for every parameter that       *)
(* requires grad, concatenated.                                            *)
MaskOf(ps, biases, larger_than) ==
    Flatten(Tup([j \in 1..Len(ps) |->
        IF ps[j].requires_grad
        THEN Tup([i \in 1..ps[j].numel |->
                     do_sketching(ps[j], biases, larger_than)], ps[j].numel)
        ELSE <<>>], Len(ps)))

(* _getGradVec: for every parameter of the group, zeros of its size when   *)
(* p.grad is None and p.grad otherwise, concatenated.                      *)
getGradVec(ps, grad) ==
    Flatten(Tup([j \in 1..Len(ps) |->
        IF grad[j] = NoGrad THEN Zeros(ps[j].numel) ELSE grad[j]], Len(ps)))

(* FedSketchedWorker.set_optimizer                                         *)
SetOptimizer ==
    /\ ~layout.bound
    /\ layout.net # <<>>
    /\ \E biases \in BOOLEAN :
         layout' = [layout EXCEPT
                       !.bound = TRUE,
                       !.grad_size = GradSizeOf(layout.net),
                       !.sketch_mask = MaskOf(layout.net, biases, 0),
                       !.u = Zeros(GradSizeOf(layout.net)),
                       !.v = Zeros(GradSizeOf(layout.net))]
    /\ last' = Call("set_optimizer")
    /\ UNCHANGED <<training, rounds, W, config, steps, aggCalls, gradCalls, contrib,
                   sampled, targets, head_worker, queue, store, coord, roundStart>>

(* loss_backward: every parameter that requires grad gets a gradient       *)
Backward ==
    /\ layout.bound
    /\ \E x \in GradVals :
         layout' = [layout EXCEPT !.grad =
             Tup([j \in 1..Len(layout.net) |->
                     IF layout.net[j].requires_grad
                     THEN Tup([i \in 1..layout.net[j].numel |-> x],
                              layout.net[j].numel)
                     ELSE layout.grad[j]], Len(layout.net))]
    /\ last' = Call("loss_backward")
    /\ UNCHANGED <<training, rounds, W, config, steps, aggCalls, gradCalls, contrib,
                   sampled, targets, head_worker, queue, store, coord, roundStart>>

(* _zero_grad: every p.grad that is not None is zeroed                     *)
WorkerZeroGrad ==
    /\ layout.bound
    /\ layout' = [layout EXCEPT !.grad =
           Tup([j \in 1..Len(layout.net) |->
                   IF layout.grad[j] = NoGrad THEN NoGrad
                   ELSE Zeros(layout.net[j].numel)], Len(layout.net))]
    /\ last' = Call("optimizer_zero_grad")
    /\ UNCHANGED <<training, rounds, W, config, steps, aggCalls, gradCalls, contrib,
                   sampled, targets, head_worker, queue, store, coord, roundStart>>

(* _getGradVec, as compute_grad calls it                                   *)
GetGradVec ==
    /\ layout.bound
    /\ last' = [Call("getGradVec") EXCEPT
                   !.value = getGradVec(layout.net, layout.grad)]
    /\ UNCHANGED <<training, rounds, W, config, steps, aggCalls, gradCalls, contrib,
                   sampled, targets, head_worker, queue, store, coord, roundStart,
                   layout>>

InitLayout ==
    /\ InitState
    /\ k = 1
    /\ p2 = 1
    /\ nesterov = FALSE
    /\ weight_decay = 0
    /\ sketch_mask = SketchMaskOf(TRUE, 0)
    /\ participation = [num |-> 1, den |-> 1]
    /\ contrib = <<>>
    /\ layout \in {Unbound(ps) : ps \in Nets}

NextLayout == SetOptimizer \/ Backward \/ WorkerZeroGrad \/ GetGradVec

SpecLayout == InitLayout /\ [][NextLayout]_vars

----------------------------------------------------------------------------
(* SpecHead: set_head on the optimizer, the model and the loss, and        *)
(* param_groups lookups, between the calls of the training loop.           *)

Heads == {"optimizer", "model", "loss"}

(* set_head(head_worker) of FedSketchedOptimizer, FedSketchedModel or      *)
(* FedSketchedLoss                                                         *)
SetHead(obj, w) ==
    /\ head_worker' = [head_worker EXCEPT ![obj] = workers[w]]
    /\ last' = [Call("set_head") EXCEPT !.sent = {workers[w]}]
    /\ UNCHANGED <<training, rounds, W, config, steps, aggCalls, gradCalls, contrib,
                   sampled, targets, queue, store, coord, roundStart, layout>>

(* FedSketchedOptimizer.__getattr__("param_groups"): get_param_groups is   *)
(* asked of self.head_worker                                               *)
ParamGroups ==
    /\ last' = [Call("param_groups") EXCEPT !.sent = {head_worker.optimizer}]
    /\ UNCHANGED <<training, rounds, W, config, steps, aggCalls, contrib, sampled,
                   targets, aux>>

InitHead ==
    /\ InitState
    /\ k = 1
    /\ p2 = 1
    /\ nesterov = FALSE
    /\ weight_decay = 0
    /\ sketch_mask = SketchMaskOf(TRUE, 0)
    /\ participation = [num |-> 3, den |-> 4]
    /\ contrib = <<>>
    /\ layout = NoLayout

NextHead ==
    \/ \E obj \in Heads, w \in WorkerIds : SetHead(obj, w)
    \/ ParamGroups
    \/ ForwardTrain
    \/ ZeroGrad
    \/ Step(UniformGrads)

SpecHead == InitHead /\ [][NextHead]_vars

----------------------------------------------------------------------------
(* Properties of the round record (checked under Spec).                    *)

SampledWorkers == {workers[i] : i \in sampled}

(* C1: an optimizer step (and zero_grad) that completes runs compute_grad  *)
(* (optimizer_zero_grad) on exactly the workers drawn by the most recent   *)
(* training forward; after a second forward the new subset has replaced    *)
(* the previous one.                                                       *)
C1_RoundAlignment ==
    (last.op \in {"step", "zero_grad"} /\ last.raised = "")
        => last.sent = SampledWorkers

(* A step that ran after a second forward whose subset differs from the    *)
(* first one's.                                                            *)
C1_Witness ==
    /\ last.op = "step"
    /\ Len(rounds) = 2
    /\ rounds[1] # rounds[2]
    /\ last.sent = {workers[i] : i \in rounds[2]}

(* C2 as stated: every loss call with positional arguments only evaluates  *)
(* the loss on the workers of the last round.                              *)
C2_LossOnLastRound ==
    (last.op = "loss" /\ last.nkwargs = 0 /\ last.raised = "" /\ rounds # <<>>)
        => last.sent = SampledWorkers

(* C2 amended: a loss call with positional arguments only evaluates the    *)
(* loss on the workers of the last round when the number of arguments is   *)
(* not two, and on workers[0] alone when it is two.                        *)
C2_LossByArgCount ==
    (last.op = "loss" /\ last.nkwargs = 0 /\ last.raised = "")
        => last.sent = IF last.nargs = 2 THEN {workers[0]} ELSE SampledWorkers

(* A three-argument loss call after a second forward that drew a subset    *)
(* other than the first one's and other than {workers[0]}.                 *)
C2_Witness ==
    /\ last.op = "loss"
    /\ last.nkwargs = 0
    /\ last.nargs = 3
    /\ Len(rounds) = 2
    /\ rounds[1] # rounds[2]
    /\ last.sent = {workers[i] : i \in rounds[2]}
    /\ last.sent # {workers[0]}

(* What a training forward must have done with a sample of size n.         *)
ForwardSampled(n) ==
    /\ Cardinality(sampled) = n
    /\ sampled \subseteq 0..(num_workers - 1)
    /\ rounds = Append(last.rounds_before, sampled)
    /\ last.sent = SampledWorkers

(* C10 as stated: a training forward draws ceil(participation_rate *        *)
(* num_workers) distinct indices of 0..num_workers-1, appends them as one  *)
(* entry of the round record and sends model_call to those workers only.   *)
C10_SampleCeil ==
    last.op = "forward" =>
        ForwardSampled(CHOOSE n \in 0..num_workers :
            /\ n * participation.den >= num_workers * participation.num
            /\ (n - 1) * participation.den < num_workers * participation.num)

(* C10 amended: the sample has int(num_workers * participation_rate)       *)
(* indices, the product truncated, not rounded up.                         *)
C10_SampleTruncated ==
    last.op = "forward" =>
        ForwardSampled(CHOOSE n \in 0..num_workers :
            /\ n * participation.den <= num_workers * participation.num
            /\ (n + 1) * participation.den > num_workers * participation.num)

(* A second training forward under a rate whose product with num_workers   *)
(* is not an integer.                                                      *)
C10_Witness ==
    /\ last.op = "forward"
    /\ Len(rounds) = 2
    /\ (num_workers * participation.num) % participation.den # 0
    /\ sampled # {}

----------------------------------------------------------------------------
(* Properties of the aggregation (checked under SpecAgg).                  *)

Aggregated == last.op \in {"step", "all_reduce"}
Coords == 1..grad_size
Sketched == {i \in Coords : sketch_mask[i]}
Dense == Coords \ Sketched

(* The exact elementwise sum of the contributed vectors.                   *)
ExactSum == [i \in Coords |-> SumAt(contrib, i)]

(* C4: every sketched coordinate that carries a value in the weight update *)
(* carries the exact sum of that same coordinate over the contributed      *)
(* vectors.                                                                *)
C4_ExactValues ==
    Aggregated =>
        \A j \in 1..Len(last.updates) : \A i \in Sketched :
            last.updates[j][i] # 0 => last.updates[j][i] = ExactSum[i]

(* C5: the sketched part of the weight update has at most k nonzero        *)
(* entries, for every k >= 0 and p2 >= 1.                                  *)
C5_TopkSparsity ==
    Aggregated =>
        \A j \in 1..Len(last.updates) :
            Cardinality({i \in Sketched : last.updates[j][i] # 0}) <= k

(* An aggregation that recovered more candidates than k and cut them down  *)
(* to exactly k.                                                           *)
C5_Witness ==
    /\ last.op = "all_reduce"
    /\ k >= 1
    /\ p2 >= 2
    /\ Cardinality(Sketched) > k
    /\ Cardinality({i \in Sketched :
           UnSketch(W[last.upd[1]].sketch, sketch_d, p2 * k)[i] # 0}) > k
    /\ Cardinality({i \in Sketched : last.updates[1][i] # 0}) = k

(* C6: at every dense coordinate the weight update is the exact sum of     *)
(* that coordinate over the contributed vectors.                           *)
C6_DenseExact ==
    Aggregated =>
        \A j \in 1..Len(last.updates) : \A i \in Dense :
            last.updates[j][i] = ExactSum[i]

(* An aggregation of two different vectors with a dense coordinate whose   *)
(* sum is nonzero, under a k that keeps nothing of the sketched part.      *)
C6_Witness ==
    /\ last.op = "all_reduce"
    /\ Len(contrib) = 2
    /\ k = 0
    /\ \E i \in Dense :
          /\ contrib[1][i] # contrib[2][i]
          /\ last.updates[1][i] = contrib[1][i] + contrib[2][i]
          /\ last.updates[1][i] # 0

(* C9: with k the number of sketched coordinates and p2 = 1 the weight     *)
(* update is the plain sum of the contributed vectors at every coordinate. *)
C9_NoCompression ==
    (Aggregated /\ k = sketch_d /\ p2 = 1) =>
        \A j \in 1..Len(last.updates) : \A i \in Coords :
            last.updates[j][i] = ExactSum[i]

----------------------------------------------------------------------------
(* Properties of a training round (checked under SpecTrain).               *)

(* The weight update the j-th all_reduce_sketched of the last step built,  *)
(* and the one worker w built (its last one when it was called twice).     *)
UpdateOf(w) ==
    last.updates[CHOOSE j \in 1..Len(last.upd) :
        /\ last.upd[j] = w
        /\ \A jj \in (j + 1)..Len(last.upd) : last.upd[jj] # w]

(* C3: after every optimizer step the head, workers[0], has had that       *)
(* round's update times lr subtracted from its parameters exactly once,    *)
(* whether or not it was sampled.                                          *)
C3_HeadAppliesOnce ==
    last.op = "step" =>
        W[workers[0]].param =
            [i \in Coords |-> last.pre[workers[0]].param[i]
                                - lr * UpdateOf(workers[0])[i]]

(* C7: on every participant, at every sketched coordinate where the        *)
(* round's update is zero, v after the round is v before the round plus    *)
(* the new u (classic rule) or plus the new u and the gradient (Nesterov). *)
C7_ErrorFeedback ==
    last.op = "step" =>
        \A w \in last.sent : \A i \in Sketched :
            UpdateOf(w)[i] = 0 =>
                /\ W[w].u[i] = IF nesterov
                               THEN momentum * (last.pre[w].u[i] + last.g[w][i])
                               ELSE momentum * last.pre[w].u[i] + last.g[w][i]
                /\ W[w].v[i] = last.pre[w].v[i] + W[w].u[i]
                                 + (IF nesterov THEN last.g[w][i] ELSE 0)

(* A second round in which a participant keeps, at a sketched coordinate   *)
(* the top-k left out, a residual carried over from before the round.      *)
C7_Witness ==
    /\ last.op = "step"
    /\ steps = 2
    /\ \E w \in last.sent : \E i \in Sketched :
          /\ UpdateOf(w)[i] = 0
          /\ last.pre[w].v[i] # 0
          /\ W[w].v[i] # 0
          /\ W[w].v[i] # last.pre[w].v[i]
          /\ \E i2 \in Sketched : UpdateOf(w)[i2] # 0

(* C8: every update worker of a step builds the same weight update from    *)
(* the same contributed vectors, whatever its own u, v, parameters and     *)
(* the earlier content of its sketch.                                      *)
C8_SameUpdateEverywhere ==
    last.op = "step" =>
        \A j1, j2 \in 1..Len(last.updates) : last.updates[j1] = last.updates[j2]

(* A step whose two update workers entered the aggregation with different  *)
(* u, v, parameters and sketch content, and built a nonzero update.        *)
C8_Witness ==
    /\ last.op = "step"
    /\ \E j1, j2 \in 1..Len(last.upd) :
          LET a == last.upd[j1]
              b == last.upd[j2]
          IN  /\ a # b
              /\ last.pre[a].sketch # last.pre[b].sketch
              /\ last.pre[a].param # last.pre[b].param
              /\ last.pre[a].v # last.pre[b].v
              /\ last.updates[j1] = last.updates[j2]
              /\ \E i \in Sketched : last.updates[j1][i] # 0

----------------------------------------------------------------------------
(* Properties of calls made out of order (checked under Spec).             *)

RoundCalls == {"loss", "step", "zero_grad"}

(* The call was made before any training forward, or is the same call as   *)
(* the one before it, with no forward in between.                          *)
Misused == rounds = <<>> \/ last.repeated

C12_KwargsNoOp ==
    (last.op = "loss" /\ last.nkwargs > 0) =>
        /\ last.returned = "None"
        /\ last.raised = ""
        /\ last.sent = {}
        /\ rounds = last.rounds_before
        /\ W = last.pre
        /\ targets = last.targets_before

(* A two-argument loss call with a keyword argument, made when a round is  *)
(* recorded and workers[0] holds targets that loss_call would consume.     *)
C12_Witness ==
    /\ last.op = "loss"
    /\ last.nkwargs > 0
    /\ last.nargs = 2
    /\ rounds # <<>>
    /\ workers[0] \in targets

----------------------------------------------------------------------------
(* Properties of the remote tasks of a step (checked under SpecRay).       *)

(* C13: once step has returned, no all_reduce_sketched task of its batch   *)
(* is still unfinished on any update worker.                               *)
C13_FanInComplete ==
    \A b \in 1..steps : Unfinished(queue, "all_reduce_sketched", b) = 0

(* The participants of batch b, in the order their compute_grad            *)
(* references are passed to all_reduce_sketched.                           *)
ParticipantsOf(b) == SetToSeq({workers[i] : i \in rounds[b]})

(* C14: in every interleaving, no all_reduce_sketched of a batch has       *)
(* started while a compute_grad of that batch is unfinished, and every     *)
(* aggregation reads, for every participant, the v that the batch's        *)
(* compute_grad returned on that participant.                              *)
C14_GradsBeforeAggregation ==
    /\ \A b \in 1..Len(store) :
          Unfinished(queue, "all_reduce_sketched", b) < Len(UpdateWorkersOf(b))
              => /\ Unfinished(queue, "compute_grad", b) = 0
                 /\ \A j \in 1..Len(ParticipantsOf(b)) :
                        ParticipantsOf(b)[j] \in DOMAIN store[b]
    /\ last.op = "all_reduce_sketched" =>
          /\ Len(last.value) = Len(ParticipantsOf(last.batch))
          /\ \A j \in 1..Len(last.value) :
                last.value[j] = store[last.batch][ParticipantsOf(last.batch)[j]]

(* An aggregation of the second batch that started when a participant's    *)
(* own v buffer no longer held what its compute_grad had returned.         *)
C14_Witness ==
    /\ last.op = "all_reduce_sketched"
    /\ last.batch = 2
    /\ \E j \in 1..Len(last.value) :
          /\ last.pre[ParticipantsOf(2)[j]].v # last.value[j]
          /\ last.value[j] = store[2][ParticipantsOf(2)[j]]

----------------------------------------------------------------------------
(* Properties of compute_grad (checked under SpecGrad).                    *)

(* num_workers times the gradient compute_grad works on, at coordinate i   *)
(* of worker w: the gradient plus weight_decay / num_workers times the     *)
(* parameter.                                                              *)
DecayedGradTimesN(w, i) ==
    num_workers * last.g[w][i] + weight_decay * last.pre[w].param[i]

(* C15: compute_grad sets u to momentum * u + g (classic) or to            *)
(* momentum * (u + g) (Nesterov), then v to v + u (classic) or v + u + g   *)
(* (Nesterov), where g is the gradient plus weight_decay / num_workers     *)
(* times the parameter vector, and returns the new v.                      *)
C15_MomentumRules ==
    last.op = "compute_grad" =>
        \A w \in last.sent :
            /\ \A i \in Coords :
                  /\ num_workers * W[w].u[i] =
                        IF nesterov
                        THEN momentum * (num_workers * last.pre[w].u[i]
                                           + DecayedGradTimesN(w, i))
                        ELSE momentum * num_workers * last.pre[w].u[i]
                               + DecayedGradTimesN(w, i)
                  /\ num_workers * (W[w].v[i] - last.pre[w].v[i] - W[w].u[i]) =
                        IF nesterov THEN DecayedGradTimesN(w, i) ELSE 0
            /\ last.value = W[w].v
            /\ W[w].param = last.pre[w].param

(* A second Nesterov call with weight decay on a worker whose u and v      *)
(* are already nonzero.                                                    *)
C15_Witness ==
    /\ last.op = "compute_grad"
    /\ nesterov
    /\ weight_decay # 0
    /\ \E w \in last.sent : \E i \in Coords :
          /\ last.pre[w].u[i] # 0
          /\ last.pre[w].v[i] # 0
          /\ last.value[i] # last.pre[w].v[i]

----------------------------------------------------------------------------
(* Further properties of a training round (checked under SpecTrain).       *)

(* The update workers of the last step.                                    *)
Updated == {last.upd[j] : j \in 1..Len(last.upd)}

(* C16: after _apply_update, u and v are zero wherever the update is       *)
(* nonzero, v is zero at every dense coordinate, and at every sketched     *)
(* coordinate where the update is zero u and v are what they were before   *)
(* the update was applied.                                                 *)
C16_ResetDischarged ==
    last.op = "step" =>
        \A w \in Updated : \A i \in Coords :
            /\ UpdateOf(w)[i] # 0 => W[w].u[i] = 0 /\ W[w].v[i] = 0
            /\ i \in Dense => W[w].v[i] = 0
            /\ (i \in Sketched /\ UpdateOf(w)[i] = 0) =>
                  /\ W[w].u[i] = last.mid[w].u[i]
                  /\ W[w].v[i] = last.mid[w].v[i]

(* An update applied by a worker that kept a nonzero u and v at a sketched *)
(* coordinate the update left out, lost a nonzero v at a coordinate the    *)
(* update carried, and lost a nonzero v at a dense coordinate.             *)
C16_Witness ==
    /\ last.op = "step"
    /\ \E w \in Updated :
          /\ \E i \in Sketched :
                /\ UpdateOf(w)[i] = 0
                /\ last.mid[w].u[i] # 0
                /\ last.mid[w].v[i] # 0
                /\ W[w].u[i] = last.mid[w].u[i]
                /\ W[w].v[i] = last.mid[w].v[i]
          /\ \E i \in Sketched :
                /\ UpdateOf(w)[i] # 0
                /\ last.mid[w].v[i] # 0
                /\ W[w].v[i] = 0
          /\ \E i \in Dense :
                /\ last.mid[w].v[i] # 0
                /\ W[w].v[i] = 0

----------------------------------------------------------------------------
(* Properties of the coordinate layout (checked under SpecLayout).         *)

(* C17: for every model, the vector _getGradVec builds has the length      *)
(* grad_size, which is the length of u, of v and of the sketch mask.       *)
C17_GradVecLength ==
    last.op = "getGradVec" =>
        /\ Len(last.value) = layout.grad_size
        /\ Len(last.value) = Len(layout.u)
        /\ Len(last.value) = Len(layout.v)
        /\ Len(last.value) = Len(layout.sketch_mask)

----------------------------------------------------------------------------
(* Further properties of the remote tasks (checked under SpecRay).         *)

(* C18: when the step of a round returns, every worker that was neither    *)
(* sampled by the round's forward nor is workers[0] has the parameters,    *)
(* u, v and sketch it had when the round's forward was called.             *)
C18_OthersUnchanged ==
    last.op = "step_returned" =>
        \A w \in WorkerIds \ (SampledWorkers \cup {workers[0]}) :
            W[w] = roundStart[w]

----------------------------------------------------------------------------
(* Properties of the replicas (checked under SpecTrain).                   *)

(* C19: at every training forward, every sampled worker holds the          *)
(* parameter vector that workers[0] holds.                                 *)
C19_ParticipantsInSync ==
    last.op = "forward" =>
        \A i \in sampled : W[workers[i]].param = W[workers[0]].param

----------------------------------------------------------------------------
(* Properties of the head worker (checked under SpecHead).                 *)

(* C20: whatever set_head calls were made on the optimizer, the model and  *)
(* the loss, every step issues all_reduce_sketched to the round's          *)
(* participants followed by workers[0], and compute_grad and               *)
(* optimizer_zero_grad to the participants; set_head changes neither the   *)
(* round record nor any worker, only the optimizer's head decides who      *)
(* answers a param_groups lookup.                                          *)
C20_HeadIsWorkerZero ==
    /\ last.op = "step" =>
          /\ last.upd = Append(SetToSeq(SampledWorkers), workers[0])
          /\ last.sent = SampledWorkers
    /\ last.op = "zero_grad" => last.sent = SampledWorkers
    /\ last.op = "set_head" =>
          /\ rounds = last.rounds_before
          /\ W = last.pre
          /\ targets = last.targets_before
    /\ last.op = "param_groups" => last.sent = {head_worker.optimizer}

(* A step that did not sample workers[0], taken after set_head had moved   *)
(* the head of the optimizer, of the model and of the loss to another      *)
(* worker.                                                                 *)
C20_Witness ==
    /\ last.op = "step"
    /\ \A obj \in Heads : head_worker[obj] \notin {NoWorker, workers[0]}
    /\ workers[0] \notin SampledWorkers
    /\ last.upd[Len(last.upd)] = workers[0]
    /\ W[workers[0]] # last.pre[workers[0]]

====
